---- MODULE Spec2Model ----
(***************************************************************************)
(* EduGenius (src/app.py): the /generate request handler and the three     *)
(* pipeline stages it sequences: parse_learning_request (with its          *)
(* fallback_parse), fetch_wikipedia_context and                            *)
(* generate_comprehensive_study_material.                                  *)
(*                                                                         *)
(* Python text is a sequence of one-character strings.  A Python value is  *)
(* a record [ty, v] carrying its type name, so that None, str, list, dict  *)
(* and int can be told apart the way the interpreter tells them apart.     *)
(* The external LLM and the knowledge source are nondeterministic: every   *)
(* call draws its outcome (raise, or one of a few returned values).        *)
(***************************************************************************)
EXTENDS Integers, Sequences, FiniteSets, TLC

VARIABLES
    pc,                 \* position of the handler generate_study_material
    data,               \* request.get_json()
    user_prompt,        \* data.get('prompt', '').strip()
    parsed_info,        \* first result of parse_learning_request
    parse_error,        \* second result of parse_learning_request
    response,           \* parse_learning_request: response.text of the LLM call
    search_terms,       \* fetch_wikipedia_context: [main_topic] + keywords[:3]
    term_i,             \* fetch_wikipedia_context: index of the next search term
    contexts,           \* fetch_wikipedia_context: accepted contexts
    wikipedia_contexts, \* first result of fetch_wikipedia_context
    wiki_error,         \* second result of fetch_wikipedia_context
    study_material,     \* first result of generate_comprehensive_study_material
    content_error,      \* second result of generate_comprehensive_study_material
    responses,          \* the envelopes the handler returned (jsonify)
    escaped,            \* an exception left the handler
    log                 \* history: stages entered and external calls made

vars == <<pc, data, user_prompt, parsed_info, parse_error, response, search_terms, term_i,
          contexts, wikipedia_contexts, wiki_error, study_material,
          content_error, responses, escaped, log>>

-----------------------------------------------------------------------------
(* Bounds of the model *)

\* most whitespace characters put before and after a prompt or a summary
MaxPad == 1
\* longest summary body the knowledge source returns
MaxSummaryLen == 1600

-----------------------------------------------------------------------------
(* Program constants *)

\* keywords[:3]
KeywordTerms == 3
\* len(contexts) >= 2
ContextLimit == 2
\* len(summary.strip()) > 100
MinSummaryLen == 100
\* len(summary) > 1500, summary[:1500]
SummaryLimit == 1500
\* prompt_lower.split()[:5]
FallbackKeywords == 5

-----------------------------------------------------------------------------
(* Python values *)

PyNone == [ty |-> "NoneType", v |-> <<>>]
PyStr(s) == [ty |-> "str", v |-> s]
PyList(xs) == [ty |-> "list", v |-> xs]
PyDict(f) == [ty |-> "dict", v |-> f]
PyInt == [ty |-> "int", v |-> <<>>]

\* bool(x) as `if x:` / `if not x:` evaluate it
Truthy(x) ==
    CASE x.ty = "NoneType" -> FALSE
      [] x.ty \in {"str", "list"} -> Len(x.v) > 0
      [] x.ty = "dict" -> DOMAIN x.v # {}
      [] OTHER -> TRUE

-----------------------------------------------------------------------------
(* Python str methods *)

Whitespace == {" ", "\t", "\n"}

UpperAlpha == <<"A","B","C","D","E","F","G","H","I","J","K","L","M",
                "N","O","P","Q","R","S","T","U","V","W","X","Y","Z">>
LowerAlpha == <<"a","b","c","d","e","f","g","h","i","j","k","l","m",
                "n","o","p","q","r","s","t","u","v","w","x","y","z">>

IsUpper(c) == \E i \in 1..Len(UpperAlpha) : UpperAlpha[i] = c
IsLower(c) == \E i \in 1..Len(LowerAlpha) : LowerAlpha[i] = c
LowerChar(c) ==
    IF IsUpper(c)
    THEN LowerAlpha[CHOOSE i \in 1..Len(UpperAlpha) : UpperAlpha[i] = c]
    ELSE c
UpperChar(c) ==
    IF IsLower(c)
    THEN UpperAlpha[CHOOSE i \in 1..Len(LowerAlpha) : LowerAlpha[i] = c]
    ELSE c

\* s.lower()
Lower(s) == [i \in 1..Len(s) |-> LowerChar(s[i])]

\* s.title(): a letter is upper-cased after a non-letter, lower-cased after a letter
Title(s) ==
    [i \in 1..Len(s) |->
        IF i = 1 \/ ~(IsUpper(s[i-1]) \/ IsLower(s[i-1]))
        THEN UpperChar(s[i])
        ELSE LowerChar(s[i])]

RECURSIVE FirstNonSpace(_, _)
FirstNonSpace(s, i) ==
    IF i > Len(s) \/ s[i] \notin Whitespace THEN i ELSE FirstNonSpace(s, i + 1)

RECURSIVE LastNonSpace(_, _)
LastNonSpace(s, i) ==
    IF i < 1 \/ s[i] \notin Whitespace THEN i ELSE LastNonSpace(s, i - 1)

\* s.strip()
Strip(s) == SubSeq(s, FirstNonSpace(s, 1), LastNonSpace(s, Len(s)))

\* s[i:] starts with sub
MatchAt(s, i, sub) ==
    /\ i + Len(sub) - 1 <= Len(s)
    /\ SubSeq(s, i, i + Len(sub) - 1) = sub

\* sub in s
Contains(s, sub) == \E i \in 1..(Len(s) + 1) : MatchAt(s, i, sub)

RECURSIVE ReplaceFrom(_, _, _, _)
ReplaceFrom(s, i, old, new) ==
    IF i > Len(s) THEN <<>>
    ELSE IF MatchAt(s, i, old)
         THEN new \o ReplaceFrom(s, i + Len(old), old, new)
         ELSE <<s[i]>> \o ReplaceFrom(s, i + 1, old, new)

\* s.replace(old, new), old non-empty: leftmost non-overlapping occurrences
Replace(s, old, new) == ReplaceFrom(s, 1, old, new)

RECURSIVE SplitFrom(_, _, _)
SplitFrom(s, i, word) ==
    IF i > Len(s)
    THEN IF word = <<>> THEN <<>> ELSE <<word>>
    ELSE IF s[i] \in Whitespace
         THEN (IF word = <<>> THEN <<>> ELSE <<word>>) \o SplitFrom(s, i + 1, <<>>)
         ELSE SplitFrom(s, i + 1, Append(word, s[i]))

\* s.split()
Split(s) == SplitFrom(s, 1, <<>>)

\* xs[:n]
Take(xs, n) == SubSeq(xs, 1, IF Len(xs) < n THEN Len(xs) ELSE n)

-----------------------------------------------------------------------------
(* fallback_parse *)

common_domains ==
   <<
      \* 'computer science': programming, algorithm, data structure, system, software
      [domain |-> <<"c","o","m","p","u","t","e","r"," ","s","c","i","e","n","c","e">>,
       keywords |-> <<
         <<"p","r","o","g","r","a","m","m","i","n","g">>,
         <<"a","l","g","o","r","i","t","h","m">>,
         <<"d","a","t","a"," ","s","t","r","u","c","t","u","r","e">>,
         <<"s","y","s","t","e","m">>,
         <<"s","o","f","t","w","a","r","e">>>>],
      \* 'biology': cell, organism, dna, protein, evolution
      [domain |-> <<"b","i","o","l","o","g","y">>,
       keywords |-> <<
         <<"c","e","l","l">>,
         <<"o","r","g","a","n","i","s","m">>,
         <<"d","n","a">>,
         <<"p","r","o","t","e","i","n">>,
         <<"e","v","o","l","u","t","i","o","n">>>>],
      \* 'physics': quantum, energy, force, particle, wave
      [domain |-> <<"p","h","y","s","i","c","s">>,
       keywords |-> <<
         <<"q","u","a","n","t","u","m">>,
         <<"e","n","e","r","g","y">>,
         <<"f","o","r","c","e">>,
         <<"p","a","r","t","i","c","l","e">>,
         <<"w","a","v","e">>>>],
      \* 'chemistry': molecule, atom, reaction, compound, element
      [domain |-> <<"c","h","e","m","i","s","t","r","y">>,
       keywords |-> <<
         <<"m","o","l","e","c","u","l","e">>,
         <<"a","t","o","m">>,
         <<"r","e","a","c","t","i","o","n">>,
         <<"c","o","m","p","o","u","n","d">>,
         <<"e","l","e","m","e","n","t">>>>],
      \* 'mathematics': equation, theorem, calculus, algebra, geometry
      [domain |-> <<"m","a","t","h","e","m","a","t","i","c","s">>,
       keywords |-> <<
         <<"e","q","u","a","t","i","o","n">>,
         <<"t","h","e","o","r","e","m">>,
         <<"c","a","l","c","u","l","u","s">>,
         <<"a","l","g","e","b","r","a">>,
         <<"g","e","o","m","e","t","r","y">>>>]
   >>

\* "General"
General == <<"G","e","n","e","r","a","l">>
\* "teach me about"
teach_me_about == <<"t","e","a","c","h"," ","m","e"," ","a","b","o","u","t">>
\* "learn about"
learn_about == <<"l","e","a","r","n"," ","a","b","o","u","t">>
\* "comprehensive understanding"
comprehensive_understanding ==
    <<"c","o","m","p","r","e","h","e","n","s","i","v","e"," ",
      "u","n","d","e","r","s","t","a","n","d","i","n","g">>
\* "intermediate"
intermediate == <<"i","n","t","e","r","m","e","d","i","a","t","e">>

\* any(keyword in prompt_lower for keyword in keywords)
DomainMatches(d, prompt_lower) ==
    \E k \in 1..Len(common_domains[d].keywords) :
        Contains(prompt_lower, common_domains[d].keywords[k])

\* the for loop with its break: the first matching domain in insertion order
identified_domain(prompt_lower) ==
    LET hits == {d \in 1..Len(common_domains) : DomainMatches(d, prompt_lower)}
    IN  IF hits = {} THEN General
        ELSE Title(common_domains[CHOOSE d \in hits : \A e \in hits : d <= e].domain)

fallback_main_topic(prompt) ==
    Strip(Replace(Replace(prompt, teach_me_about, <<>>), learn_about, <<>>))

fallback_keywords(prompt_lower) ==
    LET words == Take(Split(prompt_lower), FallbackKeywords)
    IN  [i \in 1..Len(words) |-> PyStr(words[i])]

fallback_parse(prompt) ==
    LET prompt_lower == Lower(prompt)
    IN  PyDict([main_topic |-> PyStr(fallback_main_topic(prompt)),
                subject_domain |-> PyStr(identified_domain(prompt_lower)),
                specific_focus |-> PyStr(prompt),
                learning_intent |-> PyStr(comprehensive_understanding),
                complexity_level |-> PyStr(intermediate),
                keywords |-> PyList(fallback_keywords(prompt_lower))])

-----------------------------------------------------------------------------
(* History kept for the properties: stages entered, external calls made *)

Ev(ev, i, r) == [ev |-> ev, i |-> i, r |-> r]

Events(ev) == {n \in 1..Len(log) : log[n].ev = ev}
Count(ev) == Cardinality(Events(ev))

-----------------------------------------------------------------------------
(* Response envelopes and the handler's two exits *)

ErrorEnvelope(error) == [success |-> FALSE, error |-> error]
SuccessEnvelope(d) == [success |-> TRUE, data |-> d]

\* return jsonify(...)
Return(envelope) ==
    /\ responses' = Append(responses, envelope)
    /\ escaped' = escaped
    /\ pc' = "done"

\* Variant of Raise: the handler has no except clause, the exception leaves it
Raise_propagates(e) ==
    /\ escaped' = TRUE
    /\ responses' = responses
    /\ pc' = "done"

\* an exception raised in the handler's try block: except Exception as e
Raise(e) == Return(ErrorEnvelope(PyStr(<<"Server error: ", e>>)))

\* d[key] on a Python value: "" when it succeeds, else the exception raised
Subscript(d, key) ==
    IF d.ty # "dict" THEN "TypeError"
    ELSE IF key \notin DOMAIN d.v THEN "KeyError"
    ELSE ""

\* the first exception that subscripting d with keys, in order, raises
RECURSIVE SubscriptAll(_, _)
SubscriptAll(d, keys) ==
    IF keys = <<>> THEN ""
    ELSE IF Subscript(d, Head(keys)) # "" THEN Subscript(d, Head(keys))
    ELSE SubscriptAll(d, Tail(keys))

-----------------------------------------------------------------------------
(* The request *)

Pad(n) == [i \in 1..n |-> " "]

\* "Teach me about black holes"
teach_black_holes ==
    <<"T","e","a","c","h"," ","m","e"," ","a","b","o","u","t"," ",
      "b","l","a","c","k"," ","h","o","l","e","s">>
\* "learn about dna"
learn_dna == learn_about \o <<" ","d","n","a">>
\* "Wave energy  force atom cell DNA system"
wave_energy ==
    <<"W","a","v","e"," ","e","n","e","r","g","y"," "," ","f","o","r","c","e"," ",
      "a","t","o","m"," ","c","e","l","l"," ","D","N","A"," ","s","y","s","t","e","m">>

PromptCores == {<<>>, teach_me_about, learn_dna, teach_black_holes, wave_energy}

PromptTexts ==
    {Pad(a) \o core \o Pad(b) : a \in 0..MaxPad, b \in 0..MaxPad, core \in PromptCores}

\* what request.get_json() returns when it is not a JSON object with a text prompt
OddBodies ==
    <<PyNone, PyList(<<>>), PyDict(<<>>),
      PyDict([prompt |-> PyNone]), PyDict([prompt |-> PyInt])>>

Init ==
    /\ pc = "idle"
    /\ data = PyNone
    /\ user_prompt = PyNone
    /\ parsed_info = PyNone
    /\ parse_error = PyNone
    /\ response = PyNone
    /\ search_terms = <<>>
    /\ term_i = 1
    /\ contexts = <<>>
    /\ wikipedia_contexts = PyNone
    /\ wiki_error = PyNone
    /\ study_material = PyNone
    /\ content_error = PyNone
    /\ responses = <<>>
    /\ escaped = FALSE
    /\ log = <<>>

\* line 234: data.get('prompt', '')
get_prompt(d) == IF "prompt" \in DOMAIN d.v THEN d.v.prompt ELSE PyStr(<<>>)

\* Variant of strip_prompt: the prompt is not stripped
strip_prompt_omitted(prompt) == prompt

\* line 234: .strip()
strip_prompt(prompt) == PyStr(Strip(prompt.v))

\* lines 232-240, with get_json returning d
ReadPromptOf(d) ==
    LET prompt == get_prompt(d)
    IN  /\ data' = d
        /\ IF d.ty # "dict" \/ prompt.ty # "str"
           THEN Raise("AttributeError") /\ UNCHANGED user_prompt
           ELSE /\ user_prompt' = strip_prompt(prompt)
                /\ IF ~Truthy(user_prompt')
                   THEN Return(ErrorEnvelope(PyStr(<<"Please provide a learning prompt">>)))
                   ELSE pc' = "parse" /\ UNCHANGED <<responses, escaped>>

\* lines 232-240: the request arrives
ReadPrompt ==
    /\ pc = "idle"
    /\ \/ \E text \in PromptTexts : ReadPromptOf(PyDict([prompt |-> PyStr(text)]))
       \/ \E n \in 1..Len(OddBodies) : ReadPromptOf(OddBodies[n])
       \/ Raise("BadRequest") /\ UNCHANGED <<data, user_prompt>>
    /\ UNCHANGED <<parsed_info, parse_error, response, search_terms, term_i, contexts,
                   wikipedia_contexts, wiki_error, study_material, content_error, log>>

-----------------------------------------------------------------------------
(* parse_learning_request *)

(* The text of an LLM response is a sequence of tokens: an opening brace, a  *)
(* closing brace, a stretch of prose, or one "key": value member of a JSON   *)
(* object.  Braces occur in a text only as brace tokens.                     *)
Tok(t) == [t |-> t, k |-> "", val |-> PyNone]
LBrace == Tok("{")
RBrace == Tok("}")
Prose == Tok("prose")
Pair(k, val) == [t |-> "pair", k |-> k, val |-> val]

\* re.search(r'\{.*\}', text, re.DOTALL): from the first '{' that has a '}' after
\* it to the last '}' (greedy); <<>> when there is no match
json_match(text) ==
    LET closes == {j \in 1..Len(text) : text[j].t = "}"}
        opens == {i \in 1..Len(text) : text[i].t = "{" /\ \E j \in closes : j > i}
    IN  IF opens = {} THEN <<>>
        ELSE SubSeq(text,
                    CHOOSE i \in opens : \A i2 \in opens : i <= i2,
                    CHOOSE j \in closes : \A j2 \in closes : j2 <= j)

\* json.loads accepts group: a brace, members only, a brace
json_valid(group) ==
    /\ Len(group) >= 2
    /\ group[1].t = "{"
    /\ group[Len(group)].t = "}"
    /\ \A n \in 2..(Len(group) - 1) : group[n].t = "pair"

\* json.loads(group) of a valid group: the last member of a key wins
json_loads(group) ==
    LET keys == {group[n].k : n \in 2..(Len(group) - 1)}
        last(k) == CHOOSE n \in 2..(Len(group) - 1) :
                      /\ group[n].k = k
                      /\ \A m \in 2..(Len(group) - 1) : group[m].k = k => m <= n
    IN  PyDict([k \in keys |-> group[last(k)].val])

ParseError(e) == PyStr(<<"Error parsing request: ", e>>)

\* Variant of parse_llm_raised: the fallback also covers a failed LLM call
parse_llm_raised_falls_back(prompt, e) ==
    [parsed_info |-> fallback_parse(prompt), parse_error |-> PyNone, fallback |-> TRUE]

\* lines 69, 80-81: generate_content (or response.text) raised e
parse_llm_raised(prompt, e) ==
    [parsed_info |-> PyNone, parse_error |-> ParseError(e), fallback |-> FALSE]

\* lines 72-81: the response text is in hand
parse_response_text(prompt, text) ==
    LET group == json_match(text)
    IN  IF group # <<>>
        THEN IF json_valid(group)
             THEN [parsed_info |-> json_loads(group), parse_error |-> PyNone,
                   fallback |-> FALSE]
             ELSE [parsed_info |-> PyNone, parse_error |-> ParseError("JSONDecodeError"),
                   fallback |-> FALSE]
        ELSE [parsed_info |-> fallback_parse(prompt), parse_error |-> PyNone,
              fallback |-> TRUE]

\* texts of "dna", "gene", "cell", "rna", "Biology", "beginner"
dna == <<"d","n","a">>
gene == <<"g","e","n","e">>
cell == <<"c","e","l","l">>
rna == <<"r","n","a">>
Biology == <<"B","i","o","l","o","g","y">>
beginner == <<"b","e","g","i","n","n","e","r">>

Strs(xs) == PyList([i \in 1..Len(xs) |-> PyStr(xs[i])])

FourFields ==
    <<Pair("main_topic", PyStr(dna)), Pair("subject_domain", PyStr(Biology)),
      Pair("specific_focus", PyStr(dna)), Pair("learning_intent", PyStr(dna)),
      Pair("complexity_level", PyStr(beginner))>>

\* the texts the LLM answers the parsing prompt with
ParseResponses ==
    << \* prose only, the empty text, braces in the wrong order: no match
       <<Prose>>,
       <<>>,
       <<RBrace, Prose, LBrace>>,
       \* one object with the six fields among prose, four keywords
       <<Prose, LBrace>> \o FourFields
          \o <<Pair("keywords", Strs(<<dna, gene, cell, rna>>)), RBrace, Prose>>,
       \* the six fields, no keyword
       <<LBrace>> \o FourFields \o <<Pair("keywords", Strs(<<>>)), RBrace>>,
       \* braces around text that is not JSON
       <<LBrace, Prose, RBrace>>,
       \* two objects: the greedy match spans both
       <<LBrace, Pair("main_topic", PyStr(dna)), RBrace, Prose,
         LBrace, Pair("keywords", Strs(<<gene>>)), RBrace>>,
       \* objects that lack fields
       <<LBrace, RBrace>>,
       <<LBrace, Pair("keywords", Strs(<<gene>>)), RBrace>>,
       <<LBrace, Pair("main_topic", PyStr(dna)), RBrace>>,
       <<LBrace, Pair("main_topic", PyStr(dna)), Pair("keywords", Strs(<<gene>>)), RBrace>>,
       \* keywords that are not a list, a topic that is not a text
       <<LBrace>> \o FourFields \o <<Pair("keywords", PyStr(gene)), RBrace>>,
       <<LBrace>> \o FourFields \o <<Pair("keywords", PyNone), RBrace>>,
       <<LBrace>> \o FourFields
          \o <<Pair("main_topic", PyInt), Pair("keywords", Strs(<<gene, cell>>)), RBrace>>
    >>

\* a response whose text accessor raises (no candidate text in it)
Blocked == [ty |-> "blocked", v |-> <<>>]

\* lines 40-81, the call of line 243
parse_learning_request ==
    /\ pc = "parse"
    /\ \E r \in {"raise", "return"}, n \in 0..Len(ParseResponses) :
          LET res == IF r = "raise" THEN parse_llm_raised(user_prompt.v, "APIError")
                     ELSE IF n = 0 THEN parse_llm_raised(user_prompt.v, "ValueError")
                     ELSE parse_response_text(user_prompt.v, ParseResponses[n])
          IN  /\ r = "raise" => n = 0
              /\ response' = IF r = "raise" THEN PyNone
                             ELSE IF n = 0 THEN Blocked
                             ELSE PyStr(ParseResponses[n])
              /\ parsed_info' = res.parsed_info
              /\ parse_error' = res.parse_error
              /\ log' = log \o <<Ev("parser", 0, ""), Ev("llm", 1, r)>>
                            \o (IF res.fallback THEN <<Ev("fallback", 0, "")>> ELSE <<>>)
    /\ pc' = "parsed"
    /\ UNCHANGED <<data, user_prompt, search_terms, term_i, contexts, wikipedia_contexts,
                   wiki_error, study_material, content_error, responses, escaped>>

\* lines 244-254: the error check, then the arguments of the fetch
CheckParse ==
    /\ pc = "parsed"
    /\ IF Truthy(parse_error)
       THEN Return(ErrorEnvelope(parse_error))
       ELSE IF SubscriptAll(parsed_info, <<"keywords", "main_topic">>) # ""
            THEN Raise(SubscriptAll(parsed_info, <<"keywords", "main_topic">>))
            ELSE pc' = "fetch" /\ UNCHANGED <<responses, escaped>>
    /\ UNCHANGED <<data, user_prompt, parsed_info, parse_error, response, search_terms, term_i,
                   contexts, wikipedia_contexts, wiki_error, study_material,
                   content_error, log>>

-----------------------------------------------------------------------------
(* fetch_wikipedia_context *)

Body(n) == [i \in 1..n |-> "x"]

\* the summaries the knowledge source returns for a page that exists
Summaries ==
    {<<>>,
     Body(MinSummaryLen),
     Pad(MaxPad) \o Body(MinSummaryLen) \o Pad(MaxPad),
     Body(MinSummaryLen + 1),
     Body(SummaryLimit),
     Body(SummaryLimit + 1),
     Body(MaxSummaryLen)}

\* what self.wiki.page(term) gives: page.exists(), page.summary
Pages ==
    {[exists |-> FALSE, summary |-> <<>>]}
        \cup {[exists |-> TRUE, summary |-> s] : s \in Summaries}

FetchError(e) == PyStr(<<"Error fetching Wikipedia data: ", e>>)

\* Variant of build_search_terms: the keywords are not sliced
build_search_terms_unsliced(keywords, main_topic) == <<main_topic>> \o keywords.v

\* line 118: [main_topic] + keywords[:3], keywords a list
build_search_terms(keywords, main_topic) ==
    <<main_topic>> \o Take(keywords.v, KeywordTerms)

\* Variant of loop_continues: the loop has no break
loop_never_breaks(terms, i, ctxs) == i <= Len(terms)

\* lines 120-122: the for loop goes on to its next term
loop_continues(terms, i, ctxs) ==
    /\ i <= Len(terms)
    /\ Len(ctxs) < ContextLimit

\* Variant of accepts: the summary is measured untrimmed
accepts_untrimmed(page) ==
    /\ page.exists
    /\ Len(page.summary) > MinSummaryLen

\* lines 126-128: page.exists() and summary and len(summary.strip()) > 100
accepts(page) ==
    /\ page.exists
    /\ Truthy(PyStr(page.summary))
    /\ Len(Strip(page.summary)) > MinSummaryLen

\* Variant of content_of: the summary is kept whole
content_untruncated(summary) == summary

\* lines 130-131: the content kept of an accepted summary
content_of(summary) ==
    IF Len(summary) > SummaryLimit
    THEN Take(summary, SummaryLimit) \o <<".", ".", ".">>
    ELSE summary

\* lines 132-136
context_of(term, page) ==
    [title |-> term, content |-> PyStr(content_of(page.summary)), url |-> term]

\* what the looked-up page was, for the history: no such page, a summary of at
\* most 100 characters once trimmed, or a longer one
Outcome(page) ==
    IF ~page.exists THEN "missing"
    ELSE IF Len(Strip(page.summary)) <= MinSummaryLen THEN "short"
    ELSE "long"

\* lines 114-118: the stage is entered and the search terms are built
FetchBegin ==
    /\ pc = "fetch"
    /\ log' = Append(log, Ev("fetcher", 0, ""))
    /\ contexts' = <<>>
    /\ term_i' = 1
    /\ IF parsed_info.v.keywords.ty = "list"
       THEN /\ search_terms' =
                  build_search_terms(parsed_info.v.keywords, parsed_info.v.main_topic)
            /\ pc' = "fetch_loop"
            /\ UNCHANGED <<wikipedia_contexts, wiki_error>>
       ELSE \* keywords[:3] or the list concatenation raises: lines 143-144
            /\ wikipedia_contexts' = PyNone
            /\ wiki_error' = FetchError("TypeError")
            /\ pc' = "fetched"
            /\ UNCHANGED search_terms
    /\ UNCHANGED <<data, user_prompt, parsed_info, parse_error, response, study_material,
                   content_error, responses, escaped>>

\* lines 120-136: one iteration of the loop, the lookup of search_terms[term_i]
FetchLookup ==
    /\ pc = "fetch_loop"
    /\ loop_continues(search_terms, term_i, contexts)
    /\ \/ \E page \in Pages :
             /\ contexts' = IF accepts(page)
                            THEN Append(contexts, context_of(search_terms[term_i], page))
                            ELSE contexts
             /\ term_i' = term_i + 1
             /\ log' = Append(log, Ev("lookup", term_i, Outcome(page)))
             /\ UNCHANGED <<pc, wikipedia_contexts, wiki_error>>
       \/ \* the lookup raises: lines 143-144
          /\ wikipedia_contexts' = PyNone
          /\ wiki_error' = FetchError("ConnectionError")
          /\ pc' = "fetched"
          /\ log' = Append(log, Ev("lookup", term_i, "raise"))
          /\ UNCHANGED <<contexts, term_i>>
    /\ UNCHANGED <<data, user_prompt, parsed_info, parse_error, response, search_terms,
                   study_material, content_error, responses, escaped>>

\* lines 138-141: the loop is over
FetchReturn ==
    /\ pc = "fetch_loop"
    /\ ~loop_continues(search_terms, term_i, contexts)
    /\ IF ~Truthy(PyList(contexts))
       THEN /\ wikipedia_contexts' = PyNone
            /\ wiki_error' = PyStr(<<"No relevant Wikipedia content found">>)
       ELSE /\ wikipedia_contexts' = PyList(contexts)
            /\ wiki_error' = PyNone
    /\ pc' = "fetched"
    /\ UNCHANGED <<data, user_prompt, parsed_info, parse_error, response, search_terms, term_i,
                   contexts, study_material, content_error, responses, escaped, log>>

\* Variant of CheckFetch: the fetch error is not looked at
CheckFetch_ignores_error ==
    /\ pc = "fetched"
    /\ pc' = "synth"
    /\ UNCHANGED <<data, user_prompt, parsed_info, parse_error, response, search_terms,
                   term_i, contexts, wikipedia_contexts, wiki_error, study_material,
                   content_error, responses, escaped, log>>

\* lines 256-260
CheckFetch ==
    /\ pc = "fetched"
    /\ IF Truthy(wiki_error)
       THEN Return(ErrorEnvelope(wiki_error))
       ELSE pc' = "synth" /\ UNCHANGED <<responses, escaped>>
    /\ UNCHANGED <<data, user_prompt, parsed_info, parse_error, response, search_terms, term_i,
                   contexts, wikipedia_contexts, wiki_error, study_material,
                   content_error, log>>

-----------------------------------------------------------------------------
(* generate_comprehensive_study_material *)

SynthError(e) == PyStr(<<"Error generating study material: ", e>>)

\* the generated document, as far as the handler looks at it
Guide == PyStr(<<"#", " ", "G", "u", "i", "d", "e">>)

\* response.text of the second generate_content call
SynthTexts == {PyStr(<<>>), Guide}

\* the fields of parsed_info the study prompt reads, in the order it reads them
PromptFields == <<"main_topic", "subject_domain", "specific_focus", "complexity_level">>

\* lines 146-219, the call of lines 263-265
generate_comprehensive_study_material ==
    /\ pc = "synth"
    /\ IF SubscriptAll(parsed_info, PromptFields) # ""
       THEN \* building the prompt raises: lines 218-219
            /\ study_material' = PyNone
            /\ content_error' = SynthError(SubscriptAll(parsed_info, PromptFields))
            /\ log' = Append(log, Ev("synthesizer", 0, ""))
       ELSE \/ \E e \in {"APIError", "ValueError"} :
                 \* generate_content raises, or response.text does
                 /\ study_material' = PyNone
                 /\ content_error' = SynthError(e)
                 /\ log' = log \o <<Ev("synthesizer", 0, ""),
                                    Ev("llm", 2, IF e = "APIError" THEN "raise" ELSE "return")>>
            \/ \E text \in SynthTexts :
                 /\ IF ~Truthy(text)
                    THEN /\ study_material' = PyNone
                         /\ content_error' = PyStr(<<"Failed to generate study material">>)
                    ELSE /\ study_material' = text
                         /\ content_error' = PyNone
                 /\ log' = log \o <<Ev("synthesizer", 0, ""), Ev("llm", 2, "return")>>
    /\ pc' = "synthesized"
    /\ UNCHANGED <<data, user_prompt, parsed_info, parse_error, response, search_terms, term_i,
                   contexts, wikipedia_contexts, wiki_error, responses, escaped>>

\* lines 267-282
CheckSynth ==
    /\ pc = "synthesized"
    /\ IF Truthy(content_error)
       THEN Return(ErrorEnvelope(content_error))
       ELSE Return(SuccessEnvelope(
                [study_material |-> study_material,
                 parsed_info |-> parsed_info,
                 sources |-> [n \in 1..Len(wikipedia_contexts.v) |->
                                 wikipedia_contexts.v[n].title]]))
    /\ UNCHANGED <<data, user_prompt, parsed_info, parse_error, response, search_terms, term_i,
                   contexts, wikipedia_contexts, wiki_error, study_material,
                   content_error, log>>

-----------------------------------------------------------------------------

Next ==
    \/ ReadPrompt
    \/ parse_learning_request
    \/ CheckParse
    \/ FetchBegin
    \/ FetchLookup
    \/ FetchReturn
    \/ CheckFetch
    \/ generate_comprehensive_study_material
    \/ CheckSynth

Spec == Init /\ [][Next]_vars

-----------------------------------------------------------------------------
(* Vocabulary of the properties *)

IsStage(e) == e.ev \in {"parser", "fetcher", "synthesizer"}
IsLookup(e) == e.ev = "lookup"
IsLong(e) == e.ev = "lookup" /\ e.r = "long"
IsLlm(e) == e.ev = "llm"

\* the stages entered, the lookups issued, the lookups that found a usable page
Stages == SelectSeq(log, IsStage)
Lookups == SelectSeq(log, IsLookup)
LongLookups == SelectSeq(log, IsLong)
LlmCalls == SelectSeq(log, IsLlm)

StageOrder == <<"parser", "fetcher", "synthesizer">>

\* the handler answered exactly once, with the error envelope of message error
AnsweredError(error) ==
    /\ Len(responses) = 1
    /\ ~responses[1].success
    /\ responses[1].error = error

IsServerError(r) ==
    /\ ~r.success
    /\ r.error.ty = "str"
    /\ Len(r.error.v) = 2
    /\ r.error.v[1] = "Server error: "

WellFormed(r) ==
    \/ r.success /\ DOMAIN r = {"success", "data"}
    \/ ~r.success /\ DOMAIN r = {"success", "error"}
          /\ r.error.ty = "str" /\ Len(r.error.v) > 0

NoRelevant == PyStr(<<"No relevant Wikipedia content found">>)
PleaseProvide == PyStr(<<"Please provide a learning prompt">>)

AfterFetch == pc \in {"fetched", "synth", "synthesized", "done"} /\ Count("fetcher") = 1

-----------------------------------------------------------------------------
(* C1 *)

\* C1: the stages are entered in the order parser, fetcher, synthesizer, each
\* only after every earlier stage returned without an error; a stage's error
\* stops the pipeline and is the error of the response; the fetcher is never
\* entered without a parsed record, the synthesizer never without a context.
C1_StagesInOrder ==
    /\ Len(Stages) <= Len(StageOrder)
    /\ \A n \in 1..Len(Stages) : Stages[n].ev = StageOrder[n]
    /\ Count("fetcher") > 0 => ~Truthy(parse_error) /\ parsed_info.ty = "dict"
    /\ Count("synthesizer") > 0 =>
          /\ ~Truthy(parse_error) /\ ~Truthy(wiki_error)
          /\ wikipedia_contexts.ty = "list" /\ Len(wikipedia_contexts.v) >= 1
    /\ Truthy(parse_error) =>
          /\ Count("fetcher") = 0 /\ Count("synthesizer") = 0
          /\ pc = "done" => AnsweredError(parse_error)
    /\ Truthy(wiki_error) =>
          /\ Count("synthesizer") = 0
          /\ pc = "done" => AnsweredError(wiki_error)
    /\ Truthy(content_error) /\ pc = "done" => AnsweredError(content_error)

\* a request that ended in the fetcher finding nothing: two stages, no third
C1_Witness ==
    /\ pc = "done"
    /\ wiki_error = NoRelevant
    /\ Len(Stages) = 2
    /\ AnsweredError(wiki_error)

-----------------------------------------------------------------------------
(* C2 *)

\* C2: every request ends in exactly one well-formed envelope and no exception
\* leaves the handler; an exception raised outside the stages (the body is not
\* an object, the prompt not a text, the parsed record lacks 'keywords' or
\* 'main_topic') is answered with a 'Server error: ...' envelope.
C2_OneEnvelope ==
    /\ ~escaped
    /\ Len(responses) <= 1
    /\ \A n \in 1..Len(responses) : WellFormed(responses[n])
    /\ pc = "done" <=> Len(responses) = 1
    /\ ~ENABLED Next => pc = "done"
    /\ pc = "done" /\ log = <<>> /\ (data.ty # "dict" \/ get_prompt(data).ty # "str")
          => IsServerError(responses[1])
    /\ pc = "done" /\ Len(Stages) = 1 /\ ~Truthy(parse_error)
          => /\ SubscriptAll(parsed_info, <<"keywords", "main_topic">>) # ""
             /\ IsServerError(responses[1])

\* the LLM answered with an object that has no 'keywords': a KeyError in the handler
C2_Witness ==
    /\ pc = "done"
    /\ Len(Stages) = 1
    /\ parsed_info.ty = "dict"
    /\ "keywords" \notin DOMAIN parsed_info.v
    /\ IsServerError(responses[1])
    /\ responses[1].error.v[2] = "KeyError"

-----------------------------------------------------------------------------
(* C3 *)

\* the body is an object whose prompt is missing, empty or only whitespace
BlankPrompt ==
    /\ data.ty = "dict"
    /\ "prompt" \in DOMAIN data.v =>
          /\ data.v.prompt.ty = "str"
          /\ \A i \in 1..Len(data.v.prompt.v) : data.v.prompt.v[i] \in Whitespace

\* C3: a request with a blank prompt is answered 'Please provide a learning
\* prompt' with no stage entered and no external call made.
C3_BlankPromptRejected ==
    BlankPrompt =>
        /\ pc = "done"
        /\ AnsweredError(PleaseProvide)
        /\ log = <<>>

\* a whitespace-only prompt was answered
C3_Witness ==
    /\ BlankPrompt
    /\ "prompt" \in DOMAIN data.v
    /\ Len(data.v.prompt.v) > 0
    /\ pc = "done"

-----------------------------------------------------------------------------
(* C4 *)

\* the LLM call returned a text from which no JSON object is obtained
NoJsonObtained ==
    /\ response.ty = "str"
    /\ ~(json_match(response.v) # <<>> /\ json_valid(json_match(response.v)))

\* C4: whenever the LLM call of the parser returned a text from which no JSON
\* object is obtained (no brace-delimited substring, or one that does not
\* parse), the parser substitutes the fallback record and reports no error.
C4_FallbackWhenNoJson ==
    NoJsonObtained =>
        /\ Count("fallback") = 1
        /\ parsed_info.ty = "dict"
        /\ ~Truthy(parse_error)

-----------------------------------------------------------------------------
(* C5 *)

LlmRaised == \E n \in 1..Len(log) : log[n] = Ev("llm", 1, "raise")

\* C5: if the LLM call of the parser raises, the parser returns (None, parse
\* error) without the fallback and the request is answered with that error;
\* each fallback follows an LLM call that returned.
C5_NoFallbackWhenLlmRaises ==
    /\ LlmRaised =>
          /\ parsed_info.ty = "NoneType"
          /\ parse_error = ParseError("APIError")
          /\ Count("fallback") = 0
          /\ Count("fetcher") = 0
          /\ pc = "done" => AnsweredError(parse_error)
    /\ \A n \in Events("fallback") : n > 1 /\ log[n - 1] = Ev("llm", 1, "return")

\* the LLM call raised and the request was answered
C5_Witness ==
    /\ LlmRaised
    /\ pc = "done"
    /\ AnsweredError(ParseError("APIError"))

-----------------------------------------------------------------------------
(* C6 *)

\* C6: the terms are tried in the order main_topic, keyword 1, 2, 3; no lookup
\* follows the second acceptance; the list never holds more than 2 contexts, in
\* the order their terms were tried; a non-error return holds 1 or 2 contexts.
C6_TwoContextsInTermOrder ==
    /\ Count("fetcher") = 1 /\ pc # "fetched" /\ search_terms # <<>> =>
          /\ Len(search_terms) <= 4
          /\ search_terms[1] = parsed_info.v.main_topic
          /\ \A k \in 2..Len(search_terms) :
                search_terms[k] = parsed_info.v.keywords.v[k - 1]
    /\ \A k \in 1..Len(Lookups) : Lookups[k].i = k
    /\ \A n \in Events("lookup") :
          Cardinality({m \in 1..(n - 1) : IsLong(log[m])}) < 2
    /\ Len(contexts) <= 2
    /\ Len(contexts) = Len(LongLookups)
    /\ \A k \in 1..Len(contexts) :
          contexts[k].title = search_terms[LongLookups[k].i]
    /\ AfterFetch /\ ~Truthy(wiki_error) =>
          /\ wikipedia_contexts = PyList(contexts)
          /\ Len(wikipedia_contexts.v) \in {1, 2}

\* two contexts were accepted while search terms remained untried
C6_Witness ==
    /\ pc = "done"
    /\ Len(wikipedia_contexts.v) = 2
    /\ Len(Lookups) < Len(search_terms)

-----------------------------------------------------------------------------
(* C7 *)

RequestSucceeded == Len(responses) = 1 /\ responses[1].success

NoCallRepeated ==
    /\ \A j, k \in 1..Len(Lookups) : Lookups[j].i = Lookups[k].i => j = k
    /\ \A j, k \in 1..Len(LlmCalls) : LlmCalls[j].i = LlmCalls[k].i => j = k

\* C7 as stated: at most two LLM calls and at most three page lookups per
\* request, none repeated; a successful request makes exactly two LLM calls.
C7_AtMostThreeLookups ==
    /\ Len(LlmCalls) <= 2
    /\ Len(Lookups) <= 3
    /\ NoCallRepeated
    /\ RequestSucceeded => Len(LlmCalls) = 2

\* C7, amended: at most two LLM calls and at most four page lookups (one per
\* search term: main_topic and up to three keywords) per request, none
\* repeated; a successful request makes exactly two LLM calls.
C7_AtMostFourLookups ==
    /\ Len(LlmCalls) <= 2
    /\ Len(Lookups) <= KeywordTerms + 1
    /\ NoCallRepeated
    /\ RequestSucceeded => Len(LlmCalls) = 2

\* a successful request that looked up four pages
C7_Witness ==
    /\ RequestSucceeded
    /\ Len(Lookups) = 4
    /\ Len(LlmCalls) = 2

-----------------------------------------------------------------------------
(* C8 *)

Ellipsis == <<".", ".", ".">>

\* the contexts built so far and the contexts returned
AllContexts == contexts \o wikipedia_contexts.v

\* C8 as stated: the content of every context has at most 1500 characters.
C8_ContentAtMostLimit ==
    \A k \in 1..Len(AllContexts) : Len(AllContexts[k].content.v) <= SummaryLimit

\* C8, amended: the content of every context has at most 1503 characters; one
\* longer than 1500 is 1500 characters followed by the marker "...".
C8_ContentAtMostLimitPlusMarker ==
    \A k \in 1..Len(AllContexts) :
        LET c == AllContexts[k].content.v
        IN  /\ Len(c) <= SummaryLimit + 3
            /\ Len(c) > SummaryLimit =>
                  /\ Len(c) = SummaryLimit + 3
                  /\ SubSeq(c, SummaryLimit + 1, Len(c)) = Ellipsis

\* a truncated summary was returned by the fetcher
C8_Witness ==
    /\ wikipedia_contexts.ty = "list"
    /\ \E k \in 1..Len(wikipedia_contexts.v) :
          Len(wikipedia_contexts.v[k].content.v) = SummaryLimit + 3

-----------------------------------------------------------------------------
(* C9 *)

DomainNames ==
    {Title(common_domains[d].domain) : d \in 1..Len(common_domains)} \cup {General}

\* C9: for a non-empty input the fallback record has a non-empty main_topic, a
\* subject_domain among the domain names or "General", at most 5 keywords.
C9_FallbackRecord ==
    Count("fallback") = 1 /\ Len(user_prompt.v) > 0 =>
        /\ Len(parsed_info.v.main_topic.v) > 0
        /\ parsed_info.v.subject_domain.v \in DomainNames
        /\ Len(parsed_info.v.keywords.v) <= 5

-----------------------------------------------------------------------------
(* C10 *)

\* C10: a term whose page is missing, or whose trimmed summary has at most 100
\* characters, adds no context, raises no error and is not tried again: the
\* next lookup, if any, is of the next term.  The fetch returns 'No relevant
\* Wikipedia content found' exactly when every term was tried and none accepted.
C10_UnusablePagesSkipped ==
    /\ Len(contexts) = Len(LongLookups)
    /\ \A k \in 1..Len(Lookups) : Lookups[k].i = k
    /\ Len(Lookups) > 0 /\ Lookups[Len(Lookups)].r \in {"missing", "short"} =>
          /\ wiki_error \in {PyNone, NoRelevant}
          /\ Len(Lookups) < Len(search_terms) =>
                pc = "fetch_loop" /\ term_i = Len(Lookups) + 1 /\ wiki_error = PyNone
    /\ AfterFetch =>
          (wiki_error = NoRelevant
              <=> /\ Len(search_terms) >= 1
                  /\ Len(Lookups) = Len(search_terms)
                  /\ \A k \in 1..Len(Lookups) : Lookups[k].r \in {"missing", "short"})

\* a short page and a missing page were skipped, then a page was accepted
C10_Witness ==
    /\ RequestSucceeded
    /\ Len(Lookups) >= 3
    /\ Lookups[1].r = "short"
    /\ Lookups[2].r = "missing"
    /\ Lookups[3].r = "long"
    /\ Len(wikipedia_contexts.v) = 1

====
